---- MODULE Spec2Model ----
(***************************************************************************)
(* Model of src/mini-app-bridge.js: the request/response correlator, the   *)
(* event dispatcher, the params store and the inbound message router.      *)
(* Every public operation of `bridge` runs to completion and is one        *)
(* action; a timeout callback is one action too.                           *)
(***************************************************************************)
EXTENDS Integers, Sequences, FiniteSets, TLC

\* ------------------------------------------------------------------ bounds
MaxCalls == 2          \* number of bridge.call invocations explored
MaxTime == 1           \* Date.now() returns a value in 0..MaxTime
MaxListeners == 1      \* total number of registered listener entries
MaxSubs == 3           \* the same, where the dispatcher runs on its own
MaxHandles == 1        \* unsubscribe handles the mini-app keeps at a time

\* --------------------------------------------------------------- JS values
\* A JavaScript value: its typeof-like tag and a printable content.
Val(t, v) == [type |-> t, val |-> v]
Undefined == Val("undefined", "")
Null == Val("null", "")
Str(v) == Val("string", v)
Num(v) == Val("number", v)
Bool(v) == Val("boolean", v)
Obj(v) == Val("object", v)
Err(v) == Val("Error", v)

\* ToBoolean of a value, as used by `!x`, `x || y`, `if (x)`.
Truthy(v) ==
    ~ \/ v.type \in {"undefined", "null"}
      \/ v.type = "string" /\ v.val = ""
      \/ v.type = "number" /\ v.val \in {"0", "NaN"}
      \/ v.type = "boolean" /\ v.val = "false"

\* Mutant of isNonEmptyString: the emptiness test is missing.
isNonEmptyString_typeOnly(v) == v.type = "string"

\* typeof x !== 'string' || !x  (negated): the validation of call/addListener
isNonEmptyString(v) == v.type = "string" /\ Truthy(v)

\* ------------------------------------------------------------ request ids
\* Request ids are strings, modelled as sequences of characters.
DigitChar == <<"0", "1", "2", "3", "4", "5", "6", "7", "8", "9">>

RECURSIVE Digits(_)
Digits(n) == IF n < 10 THEN <<DigitChar[n + 1]>>
             ELSE Digits(n \div 10) \o <<DigitChar[(n % 10) + 1]>>

\* `sa_${Date.now()}_${requestIdCounter}`
formatRequestId(t, n) == <<"s", "a", "_">> \o Digits(t) \o <<"_">> \o Digits(n)

\* The id field of a message that carries none.
NoId == <<"undefined">>
\* The empty string as an id (falsy).
EmptyId == <<>>
\* An id string that call never produces.
UnknownId == <<"x">>
\* A key every plain object inherits from Object.prototype.
ConstructorId == <<"c", "o", "n", "s", "t", "r", "u", "c", "t", "o", "r">>
InheritedIds == {ConstructorId}
InheritedEvents == {"constructor"}

\* obj[key] is truthy: an own entry, or a member of Object.prototype
hasOwn(obj, key) == key \in DOMAIN obj
inheritsId(key) == key \in InheritedIds
inheritsEvent(key) == key \in InheritedEvents

\* Mutant of deleteKey: every key is deleted.
deleteKey_all(obj, key) == [k \in {} |-> obj[k]]

\* delete obj[key]
deleteKey(obj, key) == [k \in (DOMAIN obj) \ {key} |-> obj[k]]
\* obj[key] = value
putKey(obj, key, value) ==
    [k \in (DOMAIN obj) \cup {key} |-> IF k = key THEN value ELSE obj[k]]

EmptyObject == [k \in {} |-> Undefined]

\* ------------------------------------------------------------- the state
VARIABLES
    requestIdCounter,  \* let requestIdCounter = 1
    nextTimeoutId,     \* the handle the next setTimeout returns
    callbackRegistry,  \* requestId -> [promise, timestamp, timeoutId]
    timers,            \* scheduled timeouts: timeoutId -> requestId
    promises,          \* one record per promise that call returned
    outbox,            \* payloads SuperAppChannel.postMessage accepted
    eventListeners,    \* eventName -> sequence of callbacks
    paramsStore,       \* key -> value
    raised,            \* the last operation threw to its caller
    invoked,           \* listener invocations of the last operation
    dispatched,        \* dispatchEvent invocations of the last operation
    handles,           \* unsubscribe handles the mini-app has kept
    lastOp             \* the last operation and its arguments

vars == <<requestIdCounter, nextTimeoutId, callbackRegistry, timers,
          promises, outbox, eventListeners, paramsStore, raised, invoked,
          dispatched, handles, lastOp>>

\* The state as one record, for the operators that model the functions.
Cur == [requestIdCounter |-> requestIdCounter,
        nextTimeoutId |-> nextTimeoutId,
        callbackRegistry |-> callbackRegistry, timers |-> timers,
        promises |-> promises, outbox |-> outbox,
        eventListeners |-> eventListeners, paramsStore |-> paramsStore,
        raised |-> raised, invoked |-> invoked, dispatched |-> dispatched]

\* The state at the start of an operation: the per-operation logs are empty.
Begin == [Cur EXCEPT !.raised = FALSE, !.invoked = <<>>, !.dispatched = <<>>]

\* An operation `op` ran to completion and left the state `s`; the mini-app
\* now keeps the unsubscribe handles `hs`.
CommitKeeping(s, op, hs) ==
    /\ requestIdCounter' = s.requestIdCounter
    /\ nextTimeoutId' = s.nextTimeoutId
    /\ callbackRegistry' = s.callbackRegistry
    /\ timers' = s.timers
    /\ promises' = s.promises
    /\ outbox' = s.outbox
    /\ eventListeners' = s.eventListeners
    /\ paramsStore' = s.paramsStore
    /\ raised' = s.raised
    /\ invoked' = s.invoked
    /\ dispatched' = s.dispatched
    /\ handles' = hs
    /\ lastOp' = op

\* An operation `op` ran to completion and left the state `s`.
Commit(s, op) == CommitKeeping(s, op, handles)

\* ------------------------------------------------------------- promises
\* new Promise(...): pending, no continuation invoked yet.
newPromise(id) == [id |-> id, outcome |-> "running", state |-> "pending",
                   value |-> Undefined, settleCalls |-> 0]

\* resolve(v) / reject(v) of promise p: the first invocation settles the
\* promise, a later one has no effect on it; settleCalls counts them all.
settle(ps, p, st, v) ==
    [ps EXCEPT ![p] = IF @.state = "pending"
                      THEN [@ EXCEPT !.state = st, !.value = v,
                                     !.settleCalls = @ + 1]
                      ELSE [@ EXCEPT !.settleCalls = @ + 1]]

\* The executor threw: the Promise constructor rejects the promise itself.
executorThrew(ps, p, e) ==
    [ps EXCEPT ![p] = IF @.state = "pending"
                      THEN [@ EXCEPT !.state = "rejected", !.value = e]
                      ELSE @]

setOutcome(ps, p, o) == [ps EXCEPT ![p].outcome = o]

\* Mutant of clearTimeout: the timeout stays scheduled.
clearTimeout_noop(ts, tid) == ts

\* setTimeout(cb, timeoutDuration) / clearTimeout(timeoutId)
setTimeout(ts, tid, requestId) == putKey(ts, tid, requestId)
clearTimeout(ts, tid) == deleteKey(ts, tid)

\* JSON.stringify(payload) throws on params it cannot serialise.
Serialisable(params) == params.val # "circular"

\* ---------------------------------------------------------- correlator
\* Mutant of generateRequestId: the counter is read but not incremented.
generateRequestId_noIncrement(s, t) ==
    [requestId |-> formatRequestId(t, s.requestIdCounter),
     requestIdCounter |-> s.requestIdCounter]

\* `t` is what Date.now() returns.
generateRequestId(s, t) ==
    [requestId |-> formatRequestId(t, s.requestIdCounter),
     requestIdCounter |-> s.requestIdCounter + 1]

\* bridge.call(className, methodName, params), with window.SuperAppChannel
\* being absent, working ("ok") or throwing on postMessage ("raises"), at
\* the time Date.now() = t.
call(s, className, methodName, params, channel, t) ==
    LET p == Len(s.promises) + 1
        ps == Append(s.promises, newPromise(NoId))
    IN
    IF ~isNonEmptyString(className)
    THEN [s EXCEPT !.promises = setOutcome(
             settle(ps, p, "rejected", Err("Invalid className")),
             p, "invalidClassName")]
    ELSE IF ~isNonEmptyString(methodName)
    THEN [s EXCEPT !.promises = setOutcome(
             settle(ps, p, "rejected", Err("Invalid methodName")),
             p, "invalidMethodName")]
    ELSE
    LET g == generateRequestId(s, t)
        requestId == g.requestId
        timeoutId == s.nextTimeoutId
        ps1 == [ps EXCEPT ![p].id = requestId]
        s1 == [s EXCEPT
                 !.requestIdCounter = g.requestIdCounter,
                 !.nextTimeoutId = @ + 1,
                 !.timers = setTimeout(@, timeoutId, requestId),
                 !.callbackRegistry = putKey(@, requestId,
                     [promise |-> p, timestamp |-> t,
                      timeoutId |-> timeoutId]),
                 !.promises = ps1]
    IN
    IF ~Serialisable(params)
    THEN [s1 EXCEPT !.promises = setOutcome(
             executorThrew(@, p, Val("TypeError", "cyclic object value")),
             p, "serializeError")]
    ELSE IF channel = "ok"
    THEN [s1 EXCEPT
            !.outbox = Append(@, [id |-> requestId, className |-> className,
                                  method |-> methodName, params |-> params]),
            !.promises = setOutcome(@, p, "sent")]
    ELSE IF channel = "raises"
    THEN [s1 EXCEPT
            !.timers = clearTimeout(@, timeoutId),
            !.promises = setOutcome(
                settle(@, p, "rejected", Err("Failed to send message")),
                p, "sendRaised"),
            !.callbackRegistry = deleteKey(@, requestId)]
    ELSE [s1 EXCEPT
            !.timers = clearTimeout(@, timeoutId),
            !.promises = setOutcome(
                settle(@, p, "rejected",
                       Err("SuperAppChannel is not available!")),
                p, "noChannel"),
            !.callbackRegistry = deleteKey(@, requestId)]

\* Mutant of handleSuccess: the timeout of the request is not cleared.
handleSuccess_keepsTimer(s, requestId, response) ==
    IF hasOwn(s.callbackRegistry, requestId)
    THEN LET e == s.callbackRegistry[requestId] IN
         [s EXCEPT !.promises = settle(@, e.promise, "fulfilled", response),
                   !.callbackRegistry = deleteKey(@, requestId)]
    ELSE IF inheritsId(requestId)
    THEN [s EXCEPT !.raised = TRUE]
    ELSE s

\* bridge.handleSuccess(requestId, response)
handleSuccess(s, requestId, response) ==
    IF hasOwn(s.callbackRegistry, requestId)
    THEN LET e == s.callbackRegistry[requestId] IN
         [s EXCEPT !.timers = clearTimeout(@, e.timeoutId),
                   !.promises = settle(@, e.promise, "fulfilled", response),
                   !.callbackRegistry = deleteKey(@, requestId)]
    ELSE IF inheritsId(requestId)
    \* callbackRegistry[requestId] is a member of Object.prototype:
    \* truthy, and its .resolve is not a function (TypeError).
    THEN [s EXCEPT !.raised = TRUE]
    ELSE s

\* Mutant of handleFailure: the entry is not deleted from the registry.
handleFailure_keepsEntry(s, requestId, error) ==
    IF hasOwn(s.callbackRegistry, requestId)
    THEN LET e == s.callbackRegistry[requestId] IN
         [s EXCEPT !.timers = clearTimeout(@, e.timeoutId),
                   !.promises = settle(@, e.promise, "rejected", error)]
    ELSE IF inheritsId(requestId)
    THEN [s EXCEPT !.raised = TRUE]
    ELSE s

\* bridge.handleFailure(requestId, error)
handleFailure(s, requestId, error) ==
    IF hasOwn(s.callbackRegistry, requestId)
    THEN LET e == s.callbackRegistry[requestId] IN
         [s EXCEPT !.timers = clearTimeout(@, e.timeoutId),
                   !.promises = settle(@, e.promise, "rejected", error),
                   !.callbackRegistry = deleteKey(@, requestId)]
    ELSE IF inheritsId(requestId)
    THEN [s EXCEPT !.raised = TRUE]
    ELSE s

TimeoutError == Obj("{error:Request Timeout}")

\* Mutant of timeoutCallback: the callback does not fail the request.
timeoutCallback_noop(s, requestId) == s

\* The callback call hands to setTimeout, for the request `requestId`.
timeoutCallback(s, requestId) ==
    IF hasOwn(s.callbackRegistry, requestId) \/ inheritsId(requestId)
    THEN handleFailure(s, requestId, TimeoutError)
    ELSE s


\* --------------------------------------------------------- params store
\* The store object itself, as setParams hands it to dispatchEvent: a
\* reference, whose properties are read when the holder looks at it.
StoreValue(store) == [type |-> "object", val |-> "paramsStore",
                      props |-> store]

\* A fresh object with the properties of the store: { ...paramsStore }
CopyValue(store) == [type |-> "object", val |-> "copy", props |-> store]

\* The object `v` is the store object, not a copy of it.
isStoreReference(v) == v.type = "object" /\ v.val = "paramsStore"

\* What the holder of the value `v` reads from it in the state `s`.
deref(s, v) == IF isStoreReference(v) THEN StoreValue(s.paramsStore) ELSE v

\* { ...a, ...b }
spread(a, b) ==
    [k \in (DOMAIN a) \cup (DOMAIN b) |-> IF k \in DOMAIN b THEN b[k] ELSE a[k]]

\* paramsStore[key]
lookupParam(store, key) ==
    IF hasOwn(store, key) THEN Str(store[key])
    ELSE IF inheritsEvent(key) THEN Val("function", key)
    ELSE Undefined

\* bridge.getParams(key)
getParams(s, key) ==
    IF Truthy(key) THEN lookupParam(s.paramsStore, key.val)
    ELSE CopyValue(s.paramsStore)

\* ---------------------------------------------------------- dispatcher
\* The listener functions of the mini-app.  CbA returns at once; CbThrow
\* raises; CbAdder subscribes CbA to the event it listens to; CbRemover
\* unsubscribes CbA from the event it listens to; CbMutate writes a property
\* of the object it is handed; CbObserve calls getParams().
CbA == "cbA"
CbThrow == "cbThrow"
CbAdder == "cbAdder"
CbRemover == "cbRemover"
CbMutate == "cbMutate"
CbObserve == "cbObserve"
Callbacks == {CbA, CbThrow}
ReentrantCallbacks == {CbAdder, CbRemover}
ParamsCallbacks == {CbMutate, CbObserve}
Functions == Callbacks \cup ReentrantCallbacks \cup ParamsCallbacks
NotAFunction == "notAFunction"
isFunction(cb) == cb \in Functions

\* The number of listener entries in the subscriber table.
RECURSIVE SumLen(_, _)
SumLen(tbl, ks) ==
    IF ks = {} THEN 0
    ELSE LET k == CHOOSE x \in ks : TRUE
         IN Len(tbl[k]) + SumLen(tbl, ks \ {k})
ListenerCount(tbl) == SumLen(tbl, DOMAIN tbl)

\* Array.prototype.filter(cb => cb !== callback)
filterOut(list, callback) == SelectSeq(list, LAMBDA cb : cb # callback)

\* bridge.addListener(eventName, callback)
addListener(s, eventName, callback) ==
    IF ~isNonEmptyString(eventName) THEN s
    ELSE IF ~isFunction(callback) THEN s
    ELSE LET key == eventName.val IN
         IF hasOwn(s.eventListeners, key)
         THEN [s EXCEPT !.eventListeners[key] = Append(@, callback)]
         ELSE IF inheritsEvent(key)
         \* eventListeners[key] is truthy, its .push is not a function
         THEN [s EXCEPT !.raised = TRUE]
         ELSE [s EXCEPT !.eventListeners = putKey(@, key, <<callback>>)]

\* The unsubscribe function addListener returns:
\* () => bridge.removeListener(eventName, callback)
unsubscribeHandle(eventName, callback) ==
    [eventName |-> eventName.val, callback |-> callback]

\* What addListener(eventName, callback) returns in the state `s`, as the
\* set of the handles returned: none when it returns undefined or raises.
addListenerReturns(s, eventName, callback) ==
    IF /\ isNonEmptyString(eventName)
       /\ isFunction(callback)
       /\ ~addListener(s, eventName, callback).raised
    THEN {unsubscribeHandle(eventName, callback)}
    ELSE {}

\* Mutant of removeListener: the emptied entry is not deleted.
removeListener_keepsEmpty(s, key, callback) ==
    IF hasOwn(s.eventListeners, key)
    THEN [s EXCEPT !.eventListeners[key] = filterOut(@, callback)]
    ELSE s

\* bridge.removeListener(eventName, callback)
removeListener(s, key, callback) ==
    IF hasOwn(s.eventListeners, key)
    THEN LET rest == filterOut(s.eventListeners[key], callback) IN
         IF Len(rest) = 0
         THEN [s EXCEPT !.eventListeners = deleteKey(@, key)]
         ELSE [s EXCEPT !.eventListeners[key] = rest]
    ELSE IF inheritsEvent(key)
    \* eventListeners[key].filter is not a function
    THEN [s EXCEPT !.raised = TRUE]
    ELSE s

\* The body of the listener `cb`, run for the event `key` with `data`.
listenerBody(s, key, cb, data) ==
    CASE cb = CbThrow -> [s EXCEPT !.raised = TRUE]
      [] cb = CbAdder -> addListener(s, Str(key), CbA)
      [] cb = CbRemover -> removeListener(s, key, CbA)
      [] cb = CbMutate ->
            \* data.a = '9', which writes the store when data is the store
            IF isStoreReference(data)
            THEN [s EXCEPT !.paramsStore = putKey(@, "a", "9")]
            ELSE s
      [] OTHER -> s

\* The listener `cb` puts a new array in the place of the one it was
\* registered in: removeListener assigns the result of filter.
replacesArray(cb) == cb = CbRemover

\* One listener invocation inside forEach, with its try/catch.  The log
\* keeps what the listener read from data and from getParams().
invokeListener(s, key, cb, data) ==
    LET s1 == listenerBody(s, key, cb, data) IN
    [s1 EXCEPT !.raised = s.raised,
               !.invoked = Append(@,
                   [event |-> key, cb |-> cb, data |-> deref(s, data),
                    threw |-> s1.raised,
                    seen |-> IF cb = CbObserve
                             THEN <<getParams(s, Undefined)>>
                             ELSE <<>>])]

\* Mutant of iterationBound: the length is read again at every index.
iterationBound_live(len, arr) == Len(arr)

\* Array.prototype.forEach visits the indices below the length the array
\* had when forEach was called.
iterationBound(len, arr) == len

\* Array.prototype.forEach on the array object `arr`, from the index `k`;
\* `len` is the length at the call, `same` tells whether the subscriber
\* table still holds this very array, so that a push reaches it.
RECURSIVE forEachListener(_, _, _, _, _, _, _)
forEachListener(s, key, arr, same, k, len, data) ==
    IF k > iterationBound(len, arr) THEN s
    ELSE LET cb == arr[k]
             s1 == invokeListener(s, key, cb, data)
             same1 == same /\ ~replacesArray(cb)
             arr1 == IF same1 THEN s1.eventListeners[key] ELSE arr
         IN forEachListener(s1, key, arr1, same1, k + 1, len, data)

\* bridge.dispatchEvent(eventName, data)
dispatchEvent(s, key, data) ==
    LET s1 == [s EXCEPT !.dispatched =
                   Append(@, [event |-> key, data |-> deref(s, data)])]
    IN
    IF hasOwn(s.eventListeners, key)
    THEN forEachListener(s1, key, s.eventListeners[key], TRUE, 1,
                         Len(s.eventListeners[key]), data)
    ELSE IF inheritsEvent(key)
    \* eventListeners[key].forEach is not a function
    THEN [s1 EXCEPT !.raised = TRUE]
    ELSE s1

\* bridge.getRegisteredEvents(): Object.keys(eventListeners)
getRegisteredEvents(s) == DOMAIN s.eventListeners

\* bridge.setParams(newParams)
setParams(s, newParams) ==
    IF newParams.type # "object"
    THEN s
    ELSE LET merged == spread(s.paramsStore, newParams.props) IN
         dispatchEvent([s EXCEPT !.paramsStore = merged],
                       "paramsUpdated", StoreValue(merged))

\* --------------------------------------------------------------- router
\* A parsed inbound message: an object with some of the fields event, id,
\* success, data, error (a missing field reads as undefined), or a value
\* that is no object (kind "null", "number").
Msg(ev, id, succ, data, err) ==
    [kind |-> "object", event |-> ev, id |-> id, success |-> succ,
     data |-> data, error |-> err]
NullMsg == [Msg(Undefined, NoId, Undefined, Undefined, Undefined)
              EXCEPT !.kind = "null"]
NumberMsg == [Msg(Undefined, NoId, Undefined, Undefined, Undefined)
                EXCEPT !.kind = "number"]

\* What receiveMessage is handed: a string (JSON text of `body`, or text
\* that is no JSON when wellFormed is FALSE) or an already parsed value.
Raw(isString, wellFormed, body) ==
    [isString |-> isString, wellFormed |-> wellFormed, body |-> body]

\* safeParseJSON(str)
safeParseJSON(raw) ==
    IF raw.isString
    THEN IF raw.wellFormed THEN raw.body ELSE NullMsg
    ELSE raw.body

\* a string id is truthy unless it is empty or the field is missing
TruthyId(id) == id # NoId /\ id # EmptyId

UnknownError == Obj("{error:Unknown error}")
\* res.error || { error: 'Unknown error' }
errorOrDefault(error) == IF Truthy(error) THEN error ELSE UnknownError

\* if (res.event)
isEvent(res) == Truthy(res.event)
\* Mutant of isResponse: the typeof test of success is missing.
isResponse_anySuccess(res) == TruthyId(res.id)

\* if (res.id && typeof res.success === 'boolean')
isResponse(res) == TruthyId(res.id) /\ res.success.type = "boolean"

\* catch (e) { logger.error(...) }
caught(s) == [s EXCEPT !.raised = FALSE]

\* Mutant of receiveMessage: the return after dispatchEvent is missing.
receiveMessage_noReturn(s, response) ==
    LET res == safeParseJSON(response) IN
    IF res.kind = "null" THEN s
    ELSE LET s1 == IF isEvent(res)
                   THEN dispatchEvent(s, res.event.val, res.data)
                   ELSE s
         IN
         IF isResponse(res)
         THEN IF Truthy(res.success)
              THEN caught(handleSuccess(s1, res.id, res.data))
              ELSE caught(handleFailure(s1, res.id, errorOrDefault(res.error)))
         ELSE caught(s1)

\* bridge.receiveMessage(response)
receiveMessage(s, response) ==
    LET res == safeParseJSON(response) IN
    IF res.kind = "null" THEN s
    ELSE IF isEvent(res)
    THEN caught(dispatchEvent(s, res.event.val, res.data))
    ELSE IF isResponse(res)
    THEN IF Truthy(res.success)
         THEN caught(handleSuccess(s, res.id, res.data))
         ELSE caught(handleFailure(s, res.id, errorOrDefault(res.error)))
    ELSE s


\* --------------------------------------------------------------- inputs
D1 == Obj("{v:1}")
E1 == Obj("{code:7}")
\* error payloads: none, a falsy one and an object
ErrorPayloads == {Undefined, Str(""), E1}

\* (className, methodName, params, window.SuperAppChannel) of a call
CallInput(c, m, p, ch) ==
    [className |-> c, methodName |-> m, params |-> p, channel |-> ch]
ValidCallInputs ==
    {CallInput(Str("superAppBase"), Str("initialized"), p, ch) :
        p \in {Obj("{}"), Obj("circular")}, ch \in {"ok", "raises", "absent"}}
InvalidCallInputs ==
    {CallInput(c, Str("initialized"), Obj("{}"), "ok") :
        c \in {Str(""), Undefined, Num("7")}}
    \cup {CallInput(Str("superAppBase"), m, Obj("{}"), "ok") :
        m \in {Str(""), Undefined}}
CallInputs == ValidCallInputs \cup InvalidCallInputs

\* the ids call has produced so far
IssuedIds == {promises[p].id : p \in 1..Len(promises)} \ {NoId}
\* ids handed to handleSuccess / handleFailure and carried by messages
IdInputs == IssuedIds \cup {UnknownId, ConstructorId}

EventKeys == {"paramsUpdated"}
EventKeyInputs == EventKeys \cup InheritedEvents
EventNameInputs == {Str(k) : k \in EventKeyInputs} \cup {Str(""), Undefined}

ParamsInputs ==
    {[type |-> "object", props |-> [k \in {"a"} |-> "1"]],
     [type |-> "null", props |-> EmptyObject]}

ResponseBodies(id) ==
    {Msg(Undefined, id, Bool("true"), D1, Undefined)}
    \cup {Msg(Undefined, id, Bool("false"), Undefined, e) : e \in ErrorPayloads}
EventBodies ==
    {Msg(Str(k), NoId, Undefined, D1, Undefined) : k \in EventKeyInputs}
\* an event field together with the fields of a response
MixedBodies(id) ==
    {Msg(Str("paramsUpdated"), id, Bool("true"), D1, Undefined),
     Msg(Str(""), id, Bool("true"), D1, Undefined),
     Msg(Str(""), id, Bool("false"), Undefined, E1)}
\* neither an event field nor an id together with a boolean success
OtherBodies(id) ==
    {Msg(Undefined, id, Str("true"), D1, Undefined),
     Msg(Undefined, id, Undefined, D1, Undefined)}
OtherBodiesNoId ==
    {Msg(Undefined, NoId, Bool("true"), D1, Undefined),
     Msg(Undefined, NoId, Undefined, Undefined, Undefined),
     NumberMsg}
Bodies ==
    EventBodies \cup OtherBodiesNoId
    \cup UNION {ResponseBodies(id) \cup MixedBodies(id) \cup OtherBodies(id) :
                    id \in IssuedIds}
    \cup {Msg(Undefined, id, Bool("true"), D1, Undefined) :
             id \in {UnknownId, ConstructorId, EmptyId}}
Messages ==
    {Raw(TRUE, TRUE, b) : b \in Bodies}
    \cup {Raw(FALSE, TRUE, Msg(Undefined, id, Bool("true"), D1, Undefined)) :
             id \in IssuedIds}
    \cup {Raw(TRUE, FALSE, NullMsg), Raw(TRUE, TRUE, NullMsg),
          Raw(FALSE, TRUE, NullMsg)}

\* ------------------------------------------------------ initial state
Init ==
    /\ requestIdCounter = 1
    /\ nextTimeoutId = 1
    /\ callbackRegistry = [k \in {} |-> [promise |-> 0, timestamp |-> 0,
                                          timeoutId |-> 0]]
    /\ timers = [k \in {} |-> NoId]
    /\ promises = <<>>
    /\ outbox = <<>>
    /\ eventListeners = [k \in {} |-> <<>>]
    /\ paramsStore = [k \in {} |-> 0]
    /\ raised = FALSE
    /\ invoked = <<>>
    /\ dispatched = <<>>
    /\ handles = {}
    /\ lastOp = [op |-> "init"]

\* -------------------------------------------------------------- actions
Call ==
    /\ Len(promises) < MaxCalls
    /\ \E in \in CallInputs, t \in 0..MaxTime :
          Commit(call(Begin, in.className, in.methodName, in.params,
                      in.channel, t),
                 [op |-> "call", in |-> in, promise |-> Len(promises) + 1])

HandleSuccess ==
    \E id \in IdInputs :
        Commit(handleSuccess(Begin, id, D1),
               [op |-> "handleSuccess", requestId |-> id, value |-> D1,
                hadEntry |-> hasOwn(callbackRegistry, id)])

HandleFailure ==
    \E id \in IdInputs, e \in {Undefined, E1} :
        Commit(handleFailure(Begin, id, e),
               [op |-> "handleFailure", requestId |-> id, value |-> e,
                hadEntry |-> hasOwn(callbackRegistry, id)])

\* The timeout `tid` elapses: the timer is consumed and its callback runs.
TimeoutFires(tid) ==
    /\ tid \in DOMAIN timers
    /\ Commit(timeoutCallback([Begin EXCEPT !.timers = deleteKey(@, tid)],
                              timers[tid]),
              [op |-> "timeout", requestId |-> timers[tid],
               hadEntry |-> hasOwn(callbackRegistry, timers[tid])])

Timeout == \E tid \in 1..MaxCalls : TimeoutFires(tid)

ReceiveMessage ==
    \E raw \in Messages :
        Commit(receiveMessage(Begin, raw),
               [op |-> "receiveMessage", msg |-> raw,
                hadEntry |-> hasOwn(callbackRegistry, raw.body.id)])

AddListener ==
    /\ ListenerCount(eventListeners) < MaxListeners
    /\ \E e \in EventNameInputs, cb \in Callbacks \cup {NotAFunction} :
          Commit(addListener(Begin, e, cb),
                 [op |-> "addListener", eventName |-> e, callback |-> cb])

RemoveListener ==
    \E key \in EventKeyInputs, cb \in Callbacks :
        Commit(removeListener(Begin, key, cb),
               [op |-> "removeListener", eventName |-> key, callback |-> cb])

DispatchEvent ==
    \E key \in EventKeyInputs :
        Commit(dispatchEvent(Begin, key, D1),
               [op |-> "dispatchEvent", eventName |-> key, data |-> D1])

SetParams ==
    \E np \in ParamsInputs :
        Commit(setParams(Begin, np), [op |-> "setParams", newParams |-> np])

Next ==
    \/ Call
    \/ HandleSuccess
    \/ HandleFailure
    \/ Timeout
    \/ ReceiveMessage
    \/ AddListener
    \/ RemoveListener
    \/ DispatchEvent
    \/ SetParams

Spec == Init /\ [][Next]_vars

\* The correlator and the router alone, with the event loop running every
\* scheduled timeout that is not cancelled.
CorrelatorNext ==
    \/ Call
    \/ HandleSuccess
    \/ HandleFailure
    \/ Timeout
    \/ ReceiveMessage

FairSpec ==
    /\ Init
    /\ [][CorrelatorNext]_vars
    /\ \A tid \in 1..MaxCalls : WF_vars(TimeoutFires(tid))


\* ------------------------------------------- the dispatcher on its own
\* Event names: the one setParams uses, another one, and an inherited one.
ListenerKeys == {"paramsUpdated", "ready"} \cup InheritedEvents
ListenerNames == {Str(k) : k \in ListenerKeys} \cup {Str(""), Undefined}
ListenerCallbacks == Callbacks \cup ReentrantCallbacks

\* addListener, whose caller may keep the unsubscribe handle it returns.
AddListenerKeep ==
    /\ ListenerCount(eventListeners) < MaxSubs
    /\ \E e \in ListenerNames, cb \in ListenerCallbacks \cup {NotAFunction},
          keep \in BOOLEAN :
          LET returned == addListenerReturns(Begin, e, cb) IN
          /\ keep => returned # {} /\ Cardinality(handles) < MaxHandles
          /\ CommitKeeping(addListener(Begin, e, cb),
                 [op |-> "addListener", eventName |-> e, callback |-> cb,
                  returned |-> returned, before |-> eventListeners],
                 IF keep THEN handles \cup returned ELSE handles)

\* The mini-app calls an unsubscribe handle it kept, and keeps or drops it.
InvokeHandle ==
    \E h \in handles, drop \in BOOLEAN :
        CommitKeeping(removeListener(Begin, h.eventName, h.callback),
            [op |-> "unsubscribe", eventName |-> h.eventName,
             callback |-> h.callback, before |-> eventListeners],
            IF drop THEN handles \ {h} ELSE handles)

RemoveAnyListener ==
    \E key \in ListenerKeys, cb \in ListenerCallbacks :
        Commit(removeListener(Begin, key, cb),
               [op |-> "removeListener", eventName |-> key, callback |-> cb,
                before |-> eventListeners])

\* dispatchEvent with listeners that subscribe and unsubscribe while it
\* runs; the table stays within MaxSubs entries.
DispatchReentrant ==
    \E key \in ListenerKeys :
        LET s == dispatchEvent(Begin, key, D1) IN
        /\ ListenerCount(s.eventListeners) <= MaxSubs
        /\ Commit(s, [op |-> "dispatchEvent", eventName |-> key,
                      data |-> D1, before |-> eventListeners])

\* An inbound event message.
ReceiveEvent ==
    \E key \in ListenerKeys, isString \in BOOLEAN :
        LET raw == Raw(isString, TRUE,
                       Msg(Str(key), NoId, Undefined, D1, Undefined))
            s == receiveMessage(Begin, raw)
        IN
        /\ ListenerCount(s.eventListeners) <= MaxSubs
        /\ Commit(s, [op |-> "receiveMessage", msg |-> raw,
                      eventName |-> key, data |-> D1,
                      before |-> eventListeners])

GetRegisteredEvents ==
    Commit(Begin, [op |-> "getRegisteredEvents",
                   result |-> getRegisteredEvents(Begin)])

ListenerNext ==
    \/ AddListenerKeep
    \/ InvokeHandle
    \/ RemoveAnyListener
    \/ DispatchReentrant
    \/ ReceiveEvent
    \/ GetRegisteredEvents

ListenerSpec == Init /\ [][ListenerNext]_vars

\* ------------------------------------------ the params store on its own
StoreCallbacks == {CbA} \cup ParamsCallbacks
\* arguments of setParams: three objects, null and a string
StoreInputs ==
    {[type |-> "object", props |-> [k \in {"a"} |-> "1"]],
     [type |-> "object", props |-> [k \in {"b"} |-> "2"]],
     [type |-> "object", props |-> [k \in {"a"} |-> "3"]],
     [type |-> "null", props |-> EmptyObject],
     [type |-> "string", props |-> EmptyObject]}

AddStoreListener ==
    /\ ListenerCount(eventListeners) < MaxSubs
    /\ \E cb \in StoreCallbacks :
          Commit(addListener(Begin, Str("paramsUpdated"), cb),
                 [op |-> "addListener", eventName |-> Str("paramsUpdated"),
                  callback |-> cb])

SetAnyParams ==
    \E np \in StoreInputs :
        Commit(setParams(Begin, np),
               [op |-> "setParams", newParams |-> np,
                before |-> paramsStore, listeners |-> eventListeners])

GetParams ==
    \E key \in {Undefined, Str("a")} :
        Commit(Begin, [op |-> "getParams", key |-> key,
                       result |-> getParams(Begin, key)])

\* The mini-app writes a property of the object getParams() returned to it:
\* returned.a = '9'
WriteReturned ==
    /\ lastOp.op = "getParams"
    /\ lastOp.result.type = "object"
    /\ Commit(IF isStoreReference(lastOp.result)
              THEN [Begin EXCEPT !.paramsStore = putKey(@, "a", "9")]
              ELSE Begin,
              [op |-> "writeReturned", before |-> paramsStore])

StoreNext ==
    \/ AddStoreListener
    \/ SetAnyParams
    \/ GetParams
    \/ WriteReturned

StoreSpec == Init /\ [][StoreNext]_vars


\* ------------------------------------------------- vocabulary of the claims
\* a non-empty string
ValidName(v) == v.type = "string" /\ v.val # ""
\* the last operation was a call whose className and methodName are valid
LastCallValid ==
    /\ lastOp.op = "call"
    /\ ValidName(lastOp.in.className)
    /\ ValidName(lastOp.in.methodName)
\* the promise call returned for the request `id`
PromiseOf(ps, id) == CHOOSE p \in 1..Len(ps) : ps[p].id = id
\* the scheduled timeouts of the request `id`
TimersFor(ts, id) == {t \in DOMAIN ts : ts[t] = id}
\* the outbound messages that carry `id`
SentWith(id) == {i \in 1..Len(outbox) : outbox[i].id = id}
\* the text or value handed to receiveMessage denotes an object
ParsesToObject(raw) ==
    /\ raw.isString => raw.wellFormed
    /\ raw.body.kind = "object"
CarriesEvent(raw) == ParsesToObject(raw) /\ raw.body.event # Undefined
CarriesResponse(raw) ==
    /\ ParsesToObject(raw)
    /\ raw.body.id # NoId
    /\ raw.body.success.type = "boolean"
\* a payload was supplied: any value other than null / undefined
Supplied(v) == v.type \notin {"undefined", "null"}

\* everything but the per-operation logs
ProgramState == <<requestIdCounter, nextTimeoutId, callbackRegistry, timers,
                  promises, outbox, eventListeners, paramsStore>>

\* ------------------------------------------------------------------- C1
\* `op` is a settlement attempt for a request that call created and that
\* has no entry in the pending table any more.
StaleAttempt(op) ==
    /\ op.op \in {"handleSuccess", "handleFailure", "receiveMessage", "timeout"}
    /\ LET id == IF op.op = "receiveMessage" THEN op.msg.body.id
                 ELSE op.requestId
       IN /\ id \in IssuedIds
          /\ id \notin DOMAIN callbackRegistry
          /\ op.op = "receiveMessage" =>
                CarriesResponse(op.msg) /\ ~CarriesEvent(op.msg)

\* C1: the resolve/reject continuation of a request is invoked at most once
\* in total; the settlement removes the entry from the pending table, and a
\* later handleSuccess, handleFailure, timeout or response for that id
\* invokes no continuation and changes no state.
C1_SettlesAtMostOnce ==
    [][/\ \A p \in 1..Len(promises') :
            /\ promises'[p].settleCalls <= 1
            /\ promises'[p].settleCalls = 1 =>
                  promises'[p].id \notin DOMAIN callbackRegistry'
       /\ StaleAttempt(lastOp') =>
            /\ UNCHANGED <<requestIdCounter, nextTimeoutId, callbackRegistry,
                           promises, outbox, eventListeners, paramsStore>>
            /\ lastOp'.op # "timeout" => UNCHANGED timers
            /\ ~raised']_vars
\* a failure attempted on a request that a success had settled before
C1_Witness ==
    /\ lastOp.op = "handleFailure"
    /\ ~lastOp.hadEntry
    /\ \E p \in 1..Len(promises) :
          /\ promises[p].id = lastOp.requestId
          /\ promises[p].state = "fulfilled"
          /\ promises[p].settleCalls = 1

\* ------------------------------------------------------------------- C2
\* C2: every call settles: with a validation or transport error by the time
\* call returns, and otherwise eventually (host result, host error or the
\* timeout), given that a scheduled, uncancelled timeout eventually fires.
C2_EveryCallSettles ==
    /\ [](\A p \in 1..Len(promises) :
            promises[p].outcome # "sent" => promises[p].state = "rejected")
    /\ \A p \in 1..MaxCalls :
          (Len(promises) >= p) ~>
              (Len(promises) >= p /\ promises[p].state # "pending")
\* a call that nothing answered was settled by its timeout
C2_Witness ==
    \E p \in 1..Len(promises) :
        /\ promises[p].outcome = "sent"
        /\ promises[p].state = "rejected"
        /\ promises[p].value = TimeoutError
        /\ lastOp.op = "timeout"


\* ------------------------------------------------------------------- C3
\* The id of the call that just returned is different from every id an
\* earlier call produced or put into the pending table, and no earlier
\* outbound message carries it.
LastCallIdFresh ==
    LET id == promises[lastOp.promise].id IN
    /\ id # NoId
    /\ \A q \in 1..(lastOp.promise - 1) : promises[q].id # id
    /\ \A i \in SentWith(id) : i = Len(outbox)

\* C3 as stated: every call with valid className and methodName sends
\* exactly one outbound message, whose id was never used before.
C3_AsStated ==
    LastCallValid =>
        /\ LastCallIdFresh
        /\ Cardinality(SentWith(promises[lastOp.promise].id)) = 1

\* C3, amended: a call with valid className and methodName sends at most one
\* outbound message - exactly one when params can be serialised and the
\* transport is present and accepts it, none otherwise - and the id it
\* produces was never used before, whether or not the earlier requests are
\* settled.
C3_FreshIdAtMostOneMessage ==
    LastCallValid =>
        /\ LastCallIdFresh
        /\ Cardinality(SentWith(promises[lastOp.promise].id)) =
              IF lastOp.in.channel = "ok" /\ lastOp.in.params.val # "circular"
              THEN 1 ELSE 0
\* two calls in the same clock tick, the second after the first was settled
C3_Witness ==
    /\ LastCallValid
    /\ lastOp.promise = 2
    /\ Len(outbox) = 2
    /\ promises[1].id = formatRequestId(0, 1)
    /\ promises[2].id = formatRequestId(0, 2)
    /\ promises[1].state = "fulfilled"
    /\ DOMAIN callbackRegistry = {promises[2].id}

\* ------------------------------------------------------------------- C4
\* a response { id, success: true, ... } without an event field
IsSuccessResponse(raw) ==
    /\ CarriesResponse(raw)
    /\ ~CarriesEvent(raw)
    /\ raw.body.success = Bool("true")

\* C4: when the request x was sent and is pending, receiveMessage of
\* {id: x, success: true, data: d} fulfils the promise of x with d, removes
\* x from the pending table and its timeout, and leaves every other request
\* as it was.
C4_ResponseResolvesItsCall ==
    [][(/\ lastOp'.op = "receiveMessage"
        /\ IsSuccessResponse(lastOp'.msg)
        /\ lastOp'.msg.body.id \in DOMAIN callbackRegistry
        /\ SentWith(lastOp'.msg.body.id) # {})
       =>
       LET x == lastOp'.msg.body.id
           p == PromiseOf(promises, x)
       IN /\ promises[p].state = "pending"
          /\ promises'[p].state = "fulfilled"
          /\ promises'[p].value = lastOp'.msg.body.data
          /\ promises'[p].settleCalls = 1
          /\ DOMAIN callbackRegistry' = (DOMAIN callbackRegistry) \ {x}
          /\ TimersFor(timers', x) = {}
          /\ \A q \in 1..Len(promises) : q # p => promises'[q] = promises[q]
          /\ \A k \in DOMAIN callbackRegistry' :
                callbackRegistry'[k] = callbackRegistry[k]
          /\ \A t \in DOMAIN timers :
                timers[t] # x => t \in DOMAIN timers' /\ timers'[t] = timers[t]]_vars
\* one of two pending requests was resolved by its response
C4_Witness ==
    /\ lastOp.op = "receiveMessage"
    /\ IsSuccessResponse(lastOp.msg)
    /\ lastOp.hadEntry
    /\ Len(promises) = 2
    /\ \E p, q \in 1..2 :
          /\ promises[p].id = lastOp.msg.body.id
          /\ promises[p].state = "fulfilled"
          /\ promises[p].value = D1
          /\ promises[q].state = "pending"
          /\ DOMAIN callbackRegistry = {promises[q].id}

\* ------------------------------------------------------------------- C5
\* C5: a call with valid className and methodName and serialisable params,
\* made while the transport is absent or postMessage raises, has by its
\* return rejected its promise with the transport error, left no entry for
\* its id in the pending table and left no timeout scheduled for it.
C5_TransportFailure ==
    (/\ LastCallValid
     /\ lastOp.in.params.val # "circular"
     /\ lastOp.in.channel \in {"absent", "raises"})
    =>
    LET pr == promises[lastOp.promise] IN
    /\ pr.state = "rejected"
    /\ pr.value = IF lastOp.in.channel = "absent"
                  THEN Err("SuperAppChannel is not available!")
                  ELSE Err("Failed to send message")
    /\ pr.settleCalls = 1
    /\ pr.id \notin DOMAIN callbackRegistry
    /\ TimersFor(timers, pr.id) = {}
    /\ SentWith(pr.id) = {}
\* postMessage raised while another request was pending
C5_Witness ==
    /\ LastCallValid
    /\ lastOp.in.channel = "raises"
    /\ lastOp.promise = 2
    /\ promises[2].value = Err("Failed to send message")
    /\ DOMAIN callbackRegistry = {promises[1].id}
    /\ Cardinality(DOMAIN timers) = 1

\* ------------------------------------------------------------------- C6
\* C6: a call whose className or methodName is not a non-empty string
\* rejects its promise with the validation error and does nothing else: no
\* message, no pending entry, no timeout, no id consumed, subscriber table
\* and params store unchanged.
C6_ValidationFailure ==
    [][(/\ lastOp'.op = "call"
        /\ ~(ValidName(lastOp'.in.className) /\ ValidName(lastOp'.in.methodName)))
       =>
       /\ Len(promises') = Len(promises) + 1
       /\ SubSeq(promises', 1, Len(promises)) = promises
       /\ promises'[Len(promises')].state = "rejected"
       /\ promises'[Len(promises')].value =
             IF ~ValidName(lastOp'.in.className)
             THEN Err("Invalid className") ELSE Err("Invalid methodName")
       /\ UNCHANGED <<requestIdCounter, nextTimeoutId, callbackRegistry,
                      timers, outbox, eventListeners, paramsStore>>
       /\ ~raised']_vars
\* an empty className while a request is pending, a listener is subscribed
\* and the params store is filled
C6_Witness ==
    /\ lastOp.op = "call"
    /\ lastOp.in.className = Str("")
    /\ promises[lastOp.promise].value = Err("Invalid className")
    /\ DOMAIN callbackRegistry # {}
    /\ DOMAIN eventListeners # {}
    /\ DOMAIN paramsStore # {}
    /\ Len(outbox) = 1


\* ------------------------------------------------------------------- C7
\* C7: for every id with no entry in the pending table, handleSuccess(id, x)
\* and handleFailure(id, x) raise no exception and leave the pending table,
\* the timeouts, the subscriber table and the params store unchanged.
C7_UnknownIdIsNoOp ==
    [][(/\ lastOp'.op \in {"handleSuccess", "handleFailure"}
        /\ lastOp'.requestId \notin DOMAIN callbackRegistry)
       =>
       /\ ~raised'
       /\ UNCHANGED <<callbackRegistry, timers, eventListeners,
                      paramsStore>>]_vars

\* ------------------------------------------------------------------- C8
\* unparseable, or neither of the event shape nor of the response shape
Malformed(raw) == ~CarriesEvent(raw) /\ ~CarriesResponse(raw)

\* C8: an inbound message that cannot be parsed, or that carries neither an
\* event field nor an id together with a boolean success, raises nothing and
\* changes nothing: the pending table, timeouts, subscriber table, params
\* store and every promise are as before, so later messages are processed
\* as if it had never arrived.
C8_MalformedIsIgnored ==
    [][(lastOp'.op = "receiveMessage" /\ Malformed(lastOp'.msg))
       =>
       /\ ~raised'
       /\ dispatched' = <<>>
       /\ invoked' = <<>>
       /\ UNCHANGED ProgramState]_vars
\* a message with the id of a pending request and a success that is no
\* boolean arrived while a listener was subscribed
C8_Witness ==
    /\ lastOp.op = "receiveMessage"
    /\ Malformed(lastOp.msg)
    /\ lastOp.msg.body.success = Str("true")
    /\ lastOp.hadEntry
    /\ lastOp.msg.body.id \in DOMAIN callbackRegistry
    /\ DOMAIN eventListeners # {}

\* ------------------------------------------------------------------- C9
\* the message of the last receiveMessage went to dispatchEvent, once
ForwardedAsEvent ==
    dispatched = <<[event |-> lastOp.msg.body.event.val,
                    data |-> lastOp.msg.body.data]>>
\* the last receiveMessage settled the request its message names
SettledByMessage ==
    /\ lastOp.hadEntry
    /\ lastOp.msg.body.id \notin DOMAIN callbackRegistry

\* C9 as stated: a message that carries an event field, whatever its value,
\* is forwarded to dispatchEvent and settles no request; only a message
\* without an event field reaches handleSuccess / handleFailure.
C9_AsStated ==
    lastOp.op = "receiveMessage" =>
        /\ CarriesEvent(lastOp.msg) => ForwardedAsEvent /\ ~SettledByMessage
        /\ SettledByMessage => ~CarriesEvent(lastOp.msg)

\* the message carries an event field whose value is not falsy
TruthyEvent(raw) ==
    /\ CarriesEvent(raw)
    /\ ~(raw.body.event.type = "string" /\ raw.body.event.val = "")
    /\ raw.body.event.type # "null"

\* C9, amended: a message whose event field is truthy is forwarded to
\* dispatchEvent and settles no request, also when it carries id and a
\* boolean success; a message settles a request only if its event field is
\* missing or falsy (such as the empty string), and then nothing is
\* dispatched.
C9_EventXorResponse ==
    lastOp.op = "receiveMessage" =>
        /\ TruthyEvent(lastOp.msg) => ForwardedAsEvent /\ ~SettledByMessage
        /\ SettledByMessage => ~TruthyEvent(lastOp.msg) /\ dispatched = <<>>
        /\ ~raised
\* an event message that also carries the id of a pending request and
\* success: true was dispatched to a listener, the request stayed pending
C9_Witness ==
    /\ lastOp.op = "receiveMessage"
    /\ TruthyEvent(lastOp.msg)
    /\ lastOp.msg.body.success = Bool("true")
    /\ lastOp.hadEntry
    /\ lastOp.msg.body.id \in DOMAIN callbackRegistry
    /\ promises[PromiseOf(promises, lastOp.msg.body.id)].state = "pending"
    /\ ForwardedAsEvent
    /\ Len(invoked) = 1

\* ------------------------------------------------------------------ C10
\* what the promise is to be rejected with, given the error handed in
ExpectedRejection(error) == IF Supplied(error) THEN error ELSE UnknownError
\* a response { id, success: false, ... } without an event field
IsFailureResponse(raw) ==
    /\ CarriesResponse(raw)
    /\ ~CarriesEvent(raw)
    /\ raw.body.success = Bool("false")

\* C10: a pending request settled as a failure - by a response with
\* success: false or by handleFailure - is rejected with the error payload
\* when one was supplied (anything but null / undefined, falsy values
\* included) and with the generic unknown-error payload exactly when none
\* was.
C10_FailurePayload ==
    /\ (/\ lastOp.op = "handleFailure"
        /\ lastOp.hadEntry
        /\ promises[PromiseOf(promises, lastOp.requestId)].outcome = "sent")
       =>
       LET pr == promises[PromiseOf(promises, lastOp.requestId)] IN
       pr.state = "rejected" /\ pr.value = ExpectedRejection(lastOp.value)
    /\ (/\ lastOp.op = "receiveMessage"
        /\ IsFailureResponse(lastOp.msg)
        /\ lastOp.hadEntry
        /\ promises[PromiseOf(promises, lastOp.msg.body.id)].outcome = "sent")
       =>
       LET pr == promises[PromiseOf(promises, lastOp.msg.body.id)] IN
       /\ pr.state = "rejected"
       /\ pr.value = ExpectedRejection(lastOp.msg.body.error)

\* ------------------------------------------------------------------ C11
\* the listeners registered for the event `e` in the table `tbl`, in order
RegisteredFor(tbl, e) == IF hasOwn(tbl, e) THEN tbl[e] ELSE <<>>
\* a dispatch step: dispatchEvent called directly or by receiveMessage
DispatchStep(op) ==
    \/ op.op = "dispatchEvent"
    \/ op.op = "receiveMessage" /\ CarriesEvent(op.msg)

\* C11: every dispatch of (e, data) - a direct dispatchEvent or an inbound
\* event message - invokes every listener registered for e exactly once, with
\* data, in subscription order, whichever listeners raise, and raises
\* nothing to its caller; a dispatch for a name with no listeners invokes
\* nothing and raises nothing.
C11_DispatchReachesEveryListener ==
    [][DispatchStep(lastOp')
       =>
       LET registered == RegisteredFor(eventListeners, lastOp'.eventName) IN
       /\ ~raised'
       /\ Len(invoked') = Len(registered)
       /\ \A i \in 1..Len(registered) :
             /\ invoked'[i].cb = registered[i]
             /\ invoked'[i].event = lastOp'.eventName
             /\ invoked'[i].data = lastOp'.data]_vars

\* ------------------------------------------------------------------ C12
\* the last operation removed the callback of its argument from an event
\* that had no other listener
RemovedSoleListener ==
    /\ lastOp.op \in {"removeListener", "unsubscribe"}
    /\ hasOwn(lastOp.before, lastOp.eventName)
    /\ \A i \in 1..Len(lastOp.before[lastOp.eventName]) :
          lastOp.before[lastOp.eventName][i] = lastOp.callback

\* C12: in every reachable state the subscriber table holds no event name
\* with an empty listener sequence, getRegisteredEvents() returns exactly the
\* names that have at least one registered listener, and removing the only
\* listener of an event leaves its name out of the table.
C12_NoEmptyEntry ==
    /\ \A e \in DOMAIN eventListeners : Len(eventListeners[e]) >= 1
    /\ lastOp.op = "getRegisteredEvents"
       => lastOp.result =
             {e \in ListenerKeys : Len(RegisteredFor(eventListeners, e)) >= 1}
    /\ RemovedSoleListener => ~hasOwn(eventListeners, lastOp.eventName)

\* The only listener of one event was removed while another event has
\* listeners.
C12_Witness ==
    /\ RemovedSoleListener
    /\ ~hasOwn(eventListeners, lastOp.eventName)
    /\ DOMAIN eventListeners # {}

\* ------------------------------------------------------------------ C13
\* C13: addListener(eventName, callback) registers exactly when its input is
\* valid.  For every non-empty string eventName and every function callback
\* it appends callback as the last entry of that event's listener sequence
\* and returns an unsubscribe handle, without raising; for any other input it
\* registers nothing, leaves the subscriber table unchanged and raises
\* nothing.
C13_RegistersExactlyValidInput ==
    [][lastOp'.op = "addListener"
       =>
       LET e == lastOp'.eventName
           cb == lastOp'.callback
       IN
       IF ValidName(e) /\ cb \in Functions
       THEN /\ ~raised'
            /\ hasOwn(eventListeners', e.val)
            /\ eventListeners'[e.val] =
                  Append(RegisteredFor(eventListeners, e.val), cb)
            /\ \A k \in DOMAIN eventListeners' \ {e.val} :
                  hasOwn(eventListeners, k)
                  /\ eventListeners'[k] = eventListeners[k]
            /\ lastOp'.returned = {[eventName |-> e.val, callback |-> cb]}
       ELSE /\ ~raised'
            /\ eventListeners' = eventListeners
            /\ lastOp'.returned = {}]_vars

\* ------------------------------------------------------------------ C14
\* `new` is the shallow merge of the update `upd` into `old`: new keys are
\* added, existing keys overwritten, untouched keys preserved
ShallowMerge(old, upd, new) ==
    /\ DOMAIN new = DOMAIN old \cup DOMAIN upd
    /\ \A k \in DOMAIN upd : new[k] = upd[k]
    /\ \A k \in DOMAIN old \ DOMAIN upd : new[k] = old[k]
\* an argument setParams accepts: an object, not null
ValidParams(np) == np.type = "object"

\* C14: starting from the empty store, every setParams call with a valid
\* argument leaves the store equal to the shallow merge of the argument into
\* the store before the call, a call with an invalid argument (null or not an
\* object) leaves the store unchanged, and getParams() returns the store:
\* the left-to-right merge of all valid arguments.
C14_StoreIsMergeOfUpdates ==
    [][/\ (lastOp'.op = "setParams" /\ ValidParams(lastOp'.newParams))
          => ShallowMerge(paramsStore, lastOp'.newParams.props, paramsStore')
       /\ (lastOp'.op = "setParams" /\ ~ValidParams(lastOp'.newParams))
          => paramsStore' = paramsStore
       /\ (lastOp'.op = "getParams" /\ lastOp'.key = Undefined)
          => lastOp'.result.props = paramsStore']_vars

\* ------------------------------------------------------------------ C15
\* the request ids the bridge has issued or been handed
KnownIds == IssuedIds \cup DOMAIN callbackRegistry
                      \cup {timers[t] : t \in DOMAIN timers}

\* C15: between the steps of the event loop a timeout is scheduled for a
\* request id exactly when the id has an entry in the pending table, and no
\* timeout is left scheduled for a call whose promise is settled.
C15_TimerIffPending ==
    /\ \A id \in KnownIds :
          TimersFor(timers, id) # {} <=> hasOwn(callbackRegistry, id)
    /\ \A p \in 1..Len(promises) :
          promises[p].state # "pending"
          => TimersFor(timers, promises[p].id) = {}

\* ------------------------------------------------------------------ C16
\* the step takes the request `x` out of the pending table
Settles(x) == hasOwn(callbackRegistry, x) /\ ~hasOwn(callbackRegistry', x)

\* C16: in-flight calls are independent.  A step that settles one pending id
\* settles the promise of that id and leaves every other pending entry, the
\* promise of every other call and every other timeout as they were, so the
\* responses of two pending calls may arrive in either order.
C16_SettlingLeavesOthers ==
    [][\A x \in DOMAIN callbackRegistry :
          Settles(x)
          =>
          /\ promises'[PromiseOf(promises, x)].state # "pending"
             \/ promises[PromiseOf(promises, x)].state # "pending"
          /\ \A y \in DOMAIN callbackRegistry \ {x} :
                /\ hasOwn(callbackRegistry', y)
                /\ callbackRegistry'[y] = callbackRegistry[y]
          /\ \A t \in DOMAIN timers :
                timers[t] # x
                => t \in DOMAIN timers' /\ timers'[t] = timers[t]
          /\ \A p \in 1..Len(promises) :
                promises[p].id # x => promises'[p] = promises[p]]_vars

\* The response of the first call arrived after the second call was
\* resolved: each of two calls in flight got its own result.
C16_Witness ==
    /\ Len(promises) = 2
    /\ promises[1].id # promises[2].id
    /\ lastOp.op = "receiveMessage"
    /\ IsSuccessResponse(lastOp.msg)
    /\ lastOp.hadEntry
    /\ lastOp.msg.body.id = promises[1].id
    /\ promises[1].state = "fulfilled" /\ promises[1].outcome = "sent"
    /\ promises[2].state = "fulfilled" /\ promises[2].outcome = "sent"

\* ------------------------------------------------------------------ C17
\* the number of entries of the callback `cb` in the sequence `list`
Occurrences(list, cb) == Cardinality({i \in 1..Len(list) : list[i] = cb})
\* `list` without the entries of `cb`, the rest in its order
RECURSIVE Without(_, _)
Without(list, cb) ==
    IF list = <<>> THEN <<>>
    ELSE IF Head(list) = cb THEN Without(Tail(list), cb)
    ELSE <<Head(list)>> \o Without(Tail(list), cb)

\* C17: duplicate registrations are independent entries until removed.
\* Every addListener(e, cb) with a non-empty string e and a function cb adds
\* one entry of cb to e, and a dispatch of e invokes cb once per entry; a
\* single removeListener(e, cb), or a single invocation of an unsubscribe
\* handle for (e, cb), removes every entry of cb from e, leaves the other
\* callbacks of e in their order and the other events unchanged; for an
\* event name with no listeners removeListener changes nothing.
C17_DuplicatesAreIndependent ==
    [][/\ (/\ lastOp'.op = "addListener"
           /\ ValidName(lastOp'.eventName)
           /\ lastOp'.callback \in Functions)
          =>
          Occurrences(RegisteredFor(eventListeners', lastOp'.eventName.val),
                      lastOp'.callback)
          = Occurrences(RegisteredFor(eventListeners, lastOp'.eventName.val),
                        lastOp'.callback) + 1
       /\ lastOp'.op = "dispatchEvent"
          =>
          \A cb \in Functions :
             Cardinality({i \in 1..Len(invoked') : invoked'[i].cb = cb})
             = Occurrences(RegisteredFor(eventListeners, lastOp'.eventName),
                           cb)
       /\ lastOp'.op \in {"removeListener", "unsubscribe"}
          =>
          /\ RegisteredFor(eventListeners', lastOp'.eventName)
             = Without(RegisteredFor(eventListeners, lastOp'.eventName),
                       lastOp'.callback)
          /\ \A k \in ListenerKeys \ {lastOp'.eventName} :
                RegisteredFor(eventListeners', k)
                = RegisteredFor(eventListeners, k)
          /\ ~hasOwn(eventListeners, lastOp'.eventName)
             => eventListeners' = eventListeners]_vars

\* ------------------------------------------------------------------ C18
\* C18: every setParams call with a valid argument first merges the argument
\* into the store and then dispatches exactly one paramsUpdated event whose
\* data is the full merged store, so every paramsUpdated listener that calls
\* getParams() during that dispatch observes the merged store; a call with an
\* invalid argument dispatches no event.
C18_MergeThenOneEvent ==
    [][lastOp'.op = "setParams"
       =>
       IF ValidParams(lastOp'.newParams)
       THEN /\ Len(dispatched') = 1
            /\ dispatched'[1].event = "paramsUpdated"
            /\ ShallowMerge(paramsStore, lastOp'.newParams.props,
                            dispatched'[1].data.props)
            /\ Len(invoked')
               = Len(RegisteredFor(eventListeners, "paramsUpdated"))
            /\ \A i \in 1..Len(invoked') :
                  invoked'[i].seen # <<>>
                  => ShallowMerge(paramsStore, lastOp'.newParams.props,
                                  invoked'[i].seen[1].props)
       ELSE dispatched' = <<>> /\ invoked' = <<>>]_vars

\* ------------------------------------------------------------------ C19
\* C19: the params store is changed by setParams only, and only by its merge:
\* no other operation changes it, and no write of the mini-app to a value
\* it was handed - the object getParams() returned, the data object passed to
\* the paramsUpdated listeners - changes what getParams() returns later.
C19_OnlySetParamsChangesStore ==
    [][paramsStore' # paramsStore
       =>
       /\ lastOp'.op = "setParams"
       /\ ValidParams(lastOp'.newParams)
       /\ ShallowMerge(paramsStore, lastOp'.newParams.props,
                       paramsStore')]_vars

\* ------------------------------------------------------------------ C20
\* the callbacks of the listener invocations in `log`, in order
InvokedCallbacks(log) == [i \in 1..Len(log) |-> log[i].cb]
\* the listeners of an event after the listeners `cbs` ran one after the
\* other: CbAdder subscribed CbA, CbRemover unsubscribed it
RECURSIVE AfterChanges(_, _)
AfterChanges(list, cbs) ==
    IF cbs = <<>> THEN list
    ELSE AfterChanges(CASE Head(cbs) = CbAdder -> Append(list, CbA)
                        [] Head(cbs) = CbRemover -> Without(list, CbA)
                        [] OTHER -> list,
                      Tail(cbs))

\* C20: one dispatch works on a snapshot of the listener sequence.  The
\* callbacks a dispatch of e invokes are exactly the entries registered for e
\* when the dispatch started, in that order, also when a listener subscribes
\* or unsubscribes a callback of e during the dispatch; the changes the
\* listeners made are in the table when the dispatch returns, so an added
\* listener is first invoked by the next dispatch and a removed one by no
\* later dispatch.
C20_DispatchWorksOnSnapshot ==
    [][DispatchStep(lastOp')
       =>
       LET registered == RegisteredFor(eventListeners, lastOp'.eventName) IN
       /\ InvokedCallbacks(invoked') = registered
       /\ RegisteredFor(eventListeners', lastOp'.eventName)
          = AfterChanges(registered, registered)
       /\ \A k \in ListenerKeys \ {lastOp'.eventName} :
             RegisteredFor(eventListeners', k)
             = RegisteredFor(eventListeners, k)]_vars

\* A dispatch whose first listener unsubscribed the second and whose third
\* subscribed it again: all three were invoked, in the order of the start.
C20_Witness ==
    /\ lastOp.op = "dispatchEvent"
    /\ RegisteredFor(lastOp.before, lastOp.eventName)
       = <<CbRemover, CbA, CbAdder>>
    /\ InvokedCallbacks(invoked) = <<CbRemover, CbA, CbAdder>>
    /\ RegisteredFor(eventListeners, lastOp.eventName)
       = <<CbRemover, CbAdder, CbA>>


====
